---- MODULE Spec2Model ----
(***************************************************************************)
(* Model of the scanner demo core: the bucketed octree of marks            *)
(* (src/marker/octree.rs) and the terrain raycaster (src/world/mod.rs).    *)
(*                                                                         *)
(* f32 values are modelled as fixed-point integers: a length or coordinate *)
(* x of the program is the integer x * Scale.  Every value the model       *)
(* manipulates is a sum of halvings and doublings of BASE_EXTENSION and of *)
(* the chosen inputs, which f32 represents exactly in the modelled range.  *)
(***************************************************************************)
EXTENDS Integers, Sequences, FiniteSets, TLC

\* ------------------------------------------------------------------ bounds
\* the number of instances the marker's buffers hold (1000000 in the program)
INST_N == 1

\* number of fractional bits of the fixed-point representation of f32
FracBits == 2
\* most marks inserted in one behaviour
MaxMarks == 3
\* most raycast calls made in one behaviour
MaxCasts == 2

Scale == 2 ^ FracBits

\* ------------------------------------------------------------- vector maths
vec3(x, y, z) == <<x, y, z>>

\* a program-unit vector in fixed point
V(x, y, z) == vec3(x * Scale, y * Scale, z * Scale)

abs(x) == IF x < 0 THEN -x ELSE x

Min(a, b) == IF a < b THEN a ELSE b

dot(a, b) == a[1] * b[1] + a[2] * b[2] + a[3] * b[3]

distance_squared(a, b) ==
    (a[1] - b[1]) * (a[1] - b[1]) + (a[2] - b[2]) * (a[2] - b[2])
        + (a[3] - b[3]) * (a[3] - b[3])

\* i & 1 << j != 0, for j in 0..2
BitSet(i, j) == (i \div (2 ^ j)) % 2 = 1

\* --------------------------------------------------------------- the octree
BASE_EXTENSION == 50 * Scale

\* the bucket sizes Octree::new is called with
BucketSizes == {1, 2}

\* the points handed to insert
Points ==
    { V(10, 10, 10), V(10, 10, 40), V(-10, 0, 10), V(60, 60, 60), V(-160, 10, 10) }

\* a frustum plane is <<nx, ny, nz, w>>: inside is dot(n, p) - w >= 0
NoPlane == <<0, 0, 0, 0>>

\* six half-spaces that include all space
AllSpace == <<NoPlane, NoPlane, NoPlane, NoPlane, NoPlane, <<0, 0, 0, -Scale>>>>

\* x >= 5
HalfSpace == <<<<1, 0, 0, 5 * Scale>>, NoPlane, NoPlane, NoPlane, NoPlane, NoPlane>>

\* x <= -60 and z >= -400
FarSide == <<NoPlane, NoPlane, <<-1, 0, 0, 60 * Scale>>, NoPlane, <<0, 0, 1, -400 * Scale>>, NoPlane>>

\* x >= 55
Beyond == <<<<1, 0, 0, 55 * Scale>>, NoPlane, NoPlane, NoPlane, NoPlane, NoPlane>>

\* a viewpoint at the same distance from two octants of the initial root
NearView == V(10, -10, 30)

FarView == V(-200, -40, 70)

\* an output buffer of the given capacity, with what an earlier use left in it
Buffer(capacity, data) ==
    [data |-> data, capacity |-> capacity, from |-> [k \in 1..Len(data) |-> <<-1, k>>]]

Stale == [pos |-> V(1, 2, 3), model |-> <<>>]

\* the buffers, viewpoints and frusta handed to get_visible
Queries ==
    { <<Buffer(1, <<>>), NearView, AllSpace>>,
      <<Buffer(2, <<Stale>>), NearView, AllSpace>>,
      <<Buffer(1, <<Stale>>), FarView, AllSpace>>,
      <<Buffer(2, <<>>), FarView, AllSpace>>,
      <<Buffer(1, <<>>), NearView, HalfSpace>>,
      <<Buffer(2, <<Stale, Stale>>), FarView, HalfSpace>>,
      <<Buffer(2, <<>>), NearView, FarSide>>,
      <<Buffer(0, <<>>), FarView, FarSide>>,
      <<Buffer(2, <<>>), NearView, Beyond>> }

VARIABLES
    root,           \* Octree.root
    bucket_size,    \* Octree.bucket_size
    octants,        \* Octree.octants, octant id i is octants[i + 1]
    n_inserted,     \* number of insert calls made (history)
    lastInsert,     \* the last insert call (history)
    call,           \* the last call (history)
    noise,          \* World.noise, as its samples at the corners of the voxels
    triangle_cache, \* World.triangle_cache
    n_casts,        \* number of calls of the world made (history)
    first_returned, \* what voxel_triangles and retrieve_triangles returned
                    \* the first time, by argument (history)
    marker_timer,   \* Marker.marker_timer, in TimeUnit
    should_cast,    \* Marker.should_cast
    instances,      \* Marker.instances, the buffer render_markers fills
    n_marks,        \* Marker.n_marks of the marker that counts its instances
    pc              \* where update_marker stands: "idle" between two calls,
                    \* "loop" at the test of its while loop, "insert" in an
                    \* insert that does not return

ovars == <<root, bucket_size, octants, n_inserted, lastInsert>>

wvars == <<noise, triangle_cache, n_casts, first_returned>>

mvars == <<marker_timer, should_cast, instances, n_marks, pc>>

vars == <<root, bucket_size, octants, n_inserted, lastInsert, call, noise,
          triangle_cache, n_casts, first_returned, marker_timer, should_cast,
          instances, n_marks, pc>>

Leaf(data) == [tag |-> "Leaf", data |-> data]

Parent(children) == [tag |-> "Parent", children |-> children]

Octant(center, extension, content) ==
    [center |-> center, extension |-> extension, content |-> content]

Mark(pos) == [pos |-> pos]

\* Mark::to_raw: the position and the column-major translation matrix
to_raw(mark) ==
    [pos |-> mark.pos,
     model |-> << <<Scale, 0, 0, 0>>, <<0, Scale, 0, 0>>, <<0, 0, Scale, 0>>,
                  <<mark.pos[1], mark.pos[2], mark.pos[3], Scale>> >>]

\* Octant::contains
contains(oct, mark) ==
    LET under == \/ mark.pos[1] < oct.center[1] - oct.extension
                 \/ mark.pos[2] < oct.center[2] - oct.extension
                 \/ mark.pos[3] < oct.center[3] - oct.extension
        above == \/ mark.pos[1] >= oct.center[1] + oct.extension
                 \/ mark.pos[2] >= oct.center[2] + oct.extension
                 \/ mark.pos[3] >= oct.center[3] + oct.extension
    IN ~(above \/ under)

\* Octant::collide
collide(oct, plane) ==
    LET r == oct.extension * (abs(plane[1]) + abs(plane[2]) + abs(plane[3]))
        s == dot(<<plane[1], plane[2], plane[3]>>, oct.center) - plane[4]
    IN -r <= s

\* the child slot the descent rule selects: bit i set iff pos[i] > center[i]
ChildId(pos, center) ==
    (IF pos[1] > center[1] THEN 1 ELSE 0) + (IF pos[2] > center[2] THEN 2 ELSE 0)
        + (IF pos[3] > center[3] THEN 4 ELSE 0)

\* center offset by +-extension on each axis, + where the bit of i is set
OffsetCenter(center, extension, i) ==
    [j \in 1..3 |-> IF BitSet(i, j - 1) THEN center[j] + extension
                    ELSE center[j] - extension]

\* GrowRoot with the new root keeping the half-extent of the old one
GrowRoot_sameExtension(t, mark) ==
    LET center == t.octants[t.root + 1].center
        extension == t.octants[t.root + 1].extension
        child_id == ChildId(mark.pos, center)
        new_center == [i \in 1..3 |-> IF mark.pos[i] > center[i]
                                        THEN center[i] + extension
                                        ELSE center[i] - extension]
        len == Len(t.octants)
        pushed == [k \in 1..7 |->
                     LET i == IF k - 1 < child_id THEN k - 1 ELSE k
                     IN Octant(OffsetCenter(new_center, extension, i), extension,
                               Leaf(<<>>))]
        children_id == [k \in 1..8 |->
                          LET i == k - 1
                          IN IF i = child_id THEN t.root
                             ELSE IF i < child_id THEN len + i ELSE len + i - 1]
    IN [root |-> len + 7,
        octants |-> (t.octants \o pushed)
                        \o <<Octant(new_center, extension, Parent(children_id))>>]

\* one pass of the root-growth loop of insert; t is [root, octants]
GrowRoot(t, mark) ==
    LET center == t.octants[t.root + 1].center
        extension == t.octants[t.root + 1].extension
        child_id == ChildId(mark.pos, center)
        new_center == [i \in 1..3 |-> IF mark.pos[i] > center[i]
                                        THEN center[i] + extension
                                        ELSE center[i] - extension]
        len == Len(t.octants)
        \* the 7 leaves pushed, in the order of i with i # child_id
        pushed == [k \in 1..7 |->
                     LET i == IF k - 1 < child_id THEN k - 1 ELSE k
                     IN Octant(OffsetCenter(new_center, extension, i), extension,
                               Leaf(<<>>))]
        children_id == [k \in 1..8 |->
                          LET i == k - 1
                          IN IF i = child_id THEN t.root
                             ELSE IF i < child_id THEN len + i ELSE len + i - 1]
    IN [root |-> len + 7,
        octants |-> (t.octants \o pushed)
                        \o <<Octant(new_center, extension * 2, Parent(children_id))>>]

\* while !self[self.root].contains(mark) { ... }
RECURSIVE GrowLoop(_, _)
GrowLoop(t, mark) ==
    IF contains(t.octants[t.root + 1], mark) THEN t ELSE GrowLoop(GrowRoot(t, mark), mark)

\* SplitLeaf with the marks of child 0 lost (children_data indexed from 1)
SplitLeaf_dropsChild0(octs, id) ==
    LET o == octs[id + 1]
        center == o.center
        data == o.content.data
        children_data == [c \in 1..8 |->
                            SelectSeq(data, LAMBDA m : ChildId(m.pos, center) = c)]
        extension == o.extension \div 2
        children == [k \in 1..8 |->
                       LET i == k - 1
                       IN Octant(OffsetCenter(o.center, extension, 7 - i), extension,
                                 Leaf(children_data[8 - i]))]
        len == Len(octs)
        pushed == [k \in 1..8 |-> children[8 - (k - 1)]]
        children_ids == [k \in 1..8 |-> len + (k - 1)]
    IN [(octs \o pushed) EXCEPT ![id + 1].content = Parent(children_ids)]

\* SplitLeaf with the marks redistributed by pos >= center
SplitLeaf_byGe(octs, id) ==
    LET o == octs[id + 1]
        center == o.center
        data == o.content.data
        GeId(pos) == (IF pos[1] >= center[1] THEN 1 ELSE 0)
                         + (IF pos[2] >= center[2] THEN 2 ELSE 0)
                         + (IF pos[3] >= center[3] THEN 4 ELSE 0)
        children_data == [c \in 1..8 |->
                            SelectSeq(data, LAMBDA m : GeId(m.pos) = c - 1)]
        extension == o.extension \div 2
        children == [k \in 1..8 |->
                       LET i == k - 1
                       IN Octant(OffsetCenter(o.center, extension, 7 - i), extension,
                                 Leaf(children_data[8 - i]))]
        len == Len(octs)
        pushed == [k \in 1..8 |-> children[8 - (k - 1)]]
        children_ids == [k \in 1..8 |-> len + (k - 1)]
    IN [(octs \o pushed) EXCEPT ![id + 1].content = Parent(children_ids)]

\* SplitLeaf with the last slot given the index of the first child
SplitLeaf_sharesChild(octs, id) ==
    LET o == octs[id + 1]
        center == o.center
        data == o.content.data
        children_data == [c \in 1..8 |->
                            SelectSeq(data, LAMBDA m : ChildId(m.pos, center) = c - 1)]
        extension == o.extension \div 2
        children == [k \in 1..8 |->
                       LET i == k - 1
                       IN Octant(OffsetCenter(o.center, extension, 7 - i), extension,
                                 Leaf(children_data[8 - i]))]
        len == Len(octs)
        pushed == [k \in 1..8 |-> children[8 - (k - 1)]]
        children_ids == [k \in 1..8 |-> len + ((k - 1) % 7)]
    IN [(octs \o pushed) EXCEPT ![id + 1].content = Parent(children_ids)]

\* the split of the full leaf id: 8 leaves appended, the leaf made a parent
SplitLeaf(octs, id) ==
    LET o == octs[id + 1]
        center == o.center
        data == o.content.data
        children_data == [c \in 1..8 |->
                            SelectSeq(data, LAMBDA m : ChildId(m.pos, center) = c - 1)]
        extension == o.extension \div 2
        \* children[i] takes center bits 7 - i and children_data.pop()
        children == [k \in 1..8 |->
                       LET i == k - 1
                       IN Octant(OffsetCenter(o.center, extension, 7 - i), extension,
                                 Leaf(children_data[8 - i]))]
        len == Len(octs)
        \* the i-th push takes children.pop()
        pushed == [k \in 1..8 |-> children[8 - (k - 1)]]
        children_ids == [k \in 1..8 |-> len + (k - 1)]
    IN [(octs \o pushed) EXCEPT ![id + 1].content = Parent(children_ids)]

\* every mark of the leaf is at the position of the mark: a split sends all
\* of them, and the descent, to the same child, which is full again
Coincident(o, mark) ==
    \A k \in 1..Len(o.content.data) : o.content.data[k].pos = mark.pos

\* InsertLoop with the leaf taking the mark while data.len() <= bucket_size
RECURSIVE InsertLoop_pushesIntoFull(_, _, _, _)
InsertLoop_pushesIntoFull(octs, id, mark, bsize) ==
    IF id + 1 > Len(octs) THEN [status |-> "panic", octants |-> octs, id |-> id]
    ELSE LET o == octs[id + 1] IN
         IF o.content.tag = "Parent"
         THEN InsertLoop_pushesIntoFull(
                  octs, o.content.children[ChildId(mark.pos, o.center) + 1], mark, bsize)
         ELSE IF Len(o.content.data) <= bsize
         THEN [status |-> "ok",
               octants |-> [octs EXCEPT ![id + 1].content.data = Append(@, mark)],
               id |-> id]
         ELSE IF o.extension % 2 # 0
         THEN [status |-> IF Coincident(o, mark) THEN "unbounded" ELSE "resolution",
               octants |-> octs, id |-> id]
         ELSE InsertLoop_pushesIntoFull(SplitLeaf(octs, id), id, mark, bsize)

\* the descent loop of insert, with the octant it stopped at.  status
\* "panic" is an index out of range.  At a full leaf whose half-extent the
\* model can not halve, status "unbounded" is a loop that splits without
\* end (the marks of the leaf are at the position of the new one, so every
\* split reproduces the leaf), "resolution" a split below the fixed-point
\* resolution of the model.
RECURSIVE InsertLoop(_, _, _, _)
InsertLoop(octs, id, mark, bsize) ==
    IF id + 1 > Len(octs) THEN [status |-> "panic", octants |-> octs, id |-> id]
    ELSE LET o == octs[id + 1] IN
         IF o.content.tag = "Parent"
         THEN InsertLoop(octs, o.content.children[ChildId(mark.pos, o.center) + 1],
                         mark, bsize)
         ELSE IF Len(o.content.data) < bsize
         THEN [status |-> "ok",
               octants |-> [octs EXCEPT ![id + 1].content.data = Append(@, mark)],
               id |-> id]
         ELSE IF o.extension % 2 # 0
         THEN [status |-> IF Coincident(o, mark) THEN "unbounded" ELSE "resolution",
               octants |-> octs, id |-> id]
         ELSE InsertLoop(SplitLeaf(octs, id), id, mark, bsize)

\* Octree::insert on the tree t = [root, octants]
insert(t, mark, bsize) ==
    LET g == GrowLoop(t, mark)
        r == InsertLoop(g.octants, g.root, to_raw(mark), bsize)
    IN [status |-> r.status, root |-> g.root, octants |-> r.octants, id |-> r.id]

RECURSIVE SumLeaves(_, _)
SumLeaves(octs, k) ==
    IF k > Len(octs) THEN 0
    ELSE (IF octs[k].content.tag = "Leaf" THEN Len(octs[k].content.data) ELSE 0)
             + SumLeaves(octs, k + 1)

\* Octree::count
count == SumLeaves(octants, 1)

\* ------------------------------------------------------------- get_visible
\* Vec::truncate(0)
VecTruncate0(vec) == [data |-> <<>>, capacity |-> vec.capacity, from |-> <<>>]

\* Vec::extend: the items are appended, and the buffer is reallocated to a
\* larger capacity when they do not fit.  from records, for each element,
\* the leaf and the bucket index it was copied from (history).
VecExtend(vec, items, id) ==
    LET n == Len(vec.data) + Len(items)
    IN [data |-> vec.data \o items,
        capacity |-> IF n <= vec.capacity THEN vec.capacity
                     ELSE IF 2 * vec.capacity >= n THEN 2 * vec.capacity ELSE n,
        from |-> vec.from \o [k \in 1..Len(items) |-> <<id, k>>]]

\* Descending with the comparison turned round: the key never decreases
RECURSIVE Descending_ascending(_, _)
Descending_ascending(d, S) ==
    IF S = {} THEN {<<>>}
    ELSE LET first == {c \in S : \A e \in S : d[c] <= d[e]}
         IN UNION {{<<c>> \o rest : rest \in Descending_ascending(d, S \ {c})} : c \in first}

\* the arrangements of the ids S in which the key d never increases
RECURSIVE Descending(_, _)
Descending(d, S) ==
    IF S = {} THEN {<<>>}
    ELSE LET first == {c \in S : \A e \in S : d[c] >= d[e]}
         IN UNION {{<<c>> \o rest : rest \in Descending(d, S \ {c})} : c \in first}

\* SortedOrders without the sort: the children in slot order
SortedOrders_unsorted(octs, children, pos) == {children}

\* the results sort_unstable_by may leave for the comparator
\* total_cmp(dist_b, dist_a): every arrangement of the children in which
\* the squared distance of the center to pos never increases
SortedOrders(octs, children, pos) ==
    LET S == {children[k] : k \in 1..8}
        d == [c \in S |-> distance_squared(octs[c + 1].center, pos)]
    IN Descending(d, S)

\* VisitLeaf without the cut at the capacity left
VisitLeaf_noMin(vec, octs, id) ==
    VecExtend(vec, octs[id + 1].content.data, id)

\* the leaf arm of get_visible_rec
VisitLeaf(vec, octs, id) ==
    LET data == octs[id + 1].content.data
        end == Min(vec.capacity - Len(vec.data), Len(data))
    IN VecExtend(vec, SubSeq(data, 1, end), id)

\* get_visible_rec: the set of buffers the call may leave (one per order
\* the unstable sort may produce)
RECURSIVE get_visible_rec(_, _, _, _, _)
RECURSIVE VisitChildren(_, _, _, _, _, _)
get_visible_rec(vec, octs, id, pos, frustum) ==
    IF Len(vec.data) = vec.capacity THEN {vec}
    ELSE IF octs[id + 1].content.tag = "Parent"
    THEN LET children == octs[id + 1].content.children
         IN UNION { VisitChildren(vec, octs, order, 1, pos, frustum) :
                      order \in SortedOrders(octs, children, pos) }
    ELSE {VisitLeaf(vec, octs, id)}

\* VisitChildren with the plane test inverted
VisitChildren_inverted(vec, octs, order, k, pos, frustum) ==
    IF k > Len(order) THEN {vec}
    ELSE IF \E i \in 1..6 : collide(octs[order[k] + 1], frustum[i])
    THEN VisitChildren(vec, octs, order, k + 1, pos, frustum)
    ELSE UNION { VisitChildren(v, octs, order, k + 1, pos, frustum) :
                   v \in get_visible_rec(vec, octs, order[k], pos, frustum) }

\* the 'outer loop of get_visible_rec from the k-th sorted child on
VisitChildren(vec, octs, order, k, pos, frustum) ==
    IF k > Len(order) THEN {vec}
    ELSE IF \E i \in 1..6 : ~collide(octs[order[k] + 1], frustum[i])
    THEN VisitChildren(vec, octs, order, k + 1, pos, frustum)
    ELSE UNION { VisitChildren(v, octs, order, k + 1, pos, frustum) :
                   v \in get_visible_rec(vec, octs, order[k], pos, frustum) }

\* get_visible without vec.truncate(0)
get_visible_keepsBuffer(vec, octs, rt, pos, frustum) ==
    get_visible_rec(vec, octs, rt, pos, frustum)

\* Octree::get_visible
get_visible(vec, octs, rt, pos, frustum) ==
    get_visible_rec(VecTruncate0(vec), octs, rt, pos, frustum)

\* ------------------------------------------------------------ the raycaster
\* positions, directions and distances of the raycaster are whole numbers
\* of program units; a quotient is kept as a fraction [n, d] with d > 0
VOXEL_SIZE == 5

MAX_RAY_DIST == 1500 \div VOXEL_SIZE

\* EPSILON is 1 / EPSILON_INV
EPSILON_INV == 10000

sub(a, b) == <<a[1] - b[1], a[2] - b[2], a[3] - b[3]>>

cross(a, b) ==
    <<a[2] * b[3] - a[3] * b[2], a[3] * b[1] - a[1] * b[3], a[1] * b[2] - a[2] * b[1]>>

Ray(pos, dir) == [pos |-> pos, dir |-> dir]

Triangle(a, b, c) == [a |-> a, b |-> b, c |-> c]

None == [some |-> FALSE]

Some(x) == [some |-> TRUE, val |-> x]

\* an f32 that may be infinite or NaN: kind "fin" is the fraction n / d
Fin(n, d) == [kind |-> "fin", n |-> n, d |-> d]

Inf == [kind |-> "inf", n |-> 1, d |-> 1]

NegInf == [kind |-> "ninf", n |-> -1, d |-> 1]

NaN == [kind |-> "nan", n |-> 0, d |-> 1]

\* 1.0 / x
FInv(x) == IF x = 0 THEN Inf ELSE IF x < 0 THEN Fin(-1, -x) ELSE Fin(1, x)

\* a * f for a whole number a
FMul(a, f) ==
    IF f.kind = "fin" THEN Fin(a * f.n, f.d)
    ELSE IF f.kind = "nan" \/ a = 0 THEN NaN
    ELSE IF (a > 0) = (f.kind = "inf") THEN Inf ELSE NegInf

FAdd(f, g) ==
    IF f.kind = "nan" \/ g.kind = "nan" THEN NaN
    ELSE IF f.kind = "fin" /\ g.kind = "fin"
         THEN IF f.d = g.d THEN Fin(f.n + g.n, f.d)
              ELSE Fin(f.n * g.d + g.n * f.d, f.d * g.d)
    ELSE IF f.kind = "fin" THEN g
    ELSE IF g.kind = "fin" \/ g.kind = f.kind THEN f
    ELSE NaN

\* f <= g, false when either is NaN
FLe(f, g) ==
    IF f.kind = "nan" \/ g.kind = "nan" THEN FALSE
    ELSE IF f.kind = "ninf" \/ g.kind = "inf" THEN TRUE
    ELSE IF f.kind = "inf" \/ g.kind = "ninf" THEN FALSE
    ELSE f.n * g.d <= g.n * f.d

\* Vec3::max on one axis: the larger operand, and g when f is NaN
FMax(f, g) == IF f.kind = "nan" \/ g.kind = "nan" THEN g ELSE IF FLe(f, g) THEN g ELSE f

\* (pos / VOXEL_SIZE).floor()
VoxelOf(pos) ==
    <<pos[1] \div VOXEL_SIZE, pos[2] \div VOXEL_SIZE, pos[3] \div VOXEL_SIZE>>

\* samples of the noise field are kept in tenths
SURFACE_THRESHOLD == 5

\* World::surface_level at the corner pos of a voxel: the field gives
\* field.low at the corners in field.below and field.high at every other
surface_level(field, pos) == IF pos \in field.below THEN field.low ELSE field.high

\* the corners of a voxel with their samples (cube_indeces, once filled)
CubeCorners(field, voxel) ==
    LET corner(dx, dy, dz) ==
            LET pos == <<voxel[1] + dx, voxel[2] + dy, voxel[3] + dz>>
            IN [pos |-> pos, val |-> surface_level(field, pos)]
    IN << corner(0, 0, 0), corner(0, 0, 1), corner(1, 0, 1), corner(1, 0, 0),
          corner(0, 1, 0), corner(0, 1, 1), corner(1, 1, 1), corner(1, 1, 0) >>

\* cube_layout: bit i is set when corner i is below the threshold
RECURSIVE CubeLayout(_, _)
CubeLayout(cube, i) ==
    IF i >= 8 THEN 0
    ELSE (IF cube[i + 1].val < SURFACE_THRESHOLD THEN 2 ^ i ELSE 0)
             + CubeLayout(cube, i + 1)

\* tables::EDGE_TABLE: the two corners of each of the 12 edges of a cube
EDGE_TABLE ==
    << <<0, 1>>, <<1, 2>>, <<2, 3>>, <<3, 0>>, <<4, 5>>, <<5, 6>>, <<6, 7>>, <<7, 4>>,
       <<0, 4>>, <<1, 5>>, <<2, 6>>, <<3, 7>> >>

\* tables::TRIANGULATION_TABLE: the rows of the marching-cubes table for the
\* configurations the fields below give the voxels that are visited
TRIANGULATION_TABLE(cube_layout) ==
    CASE cube_layout = 0 -> <<-1>>
      [] cube_layout = 1 -> <<0, 8, 3, -1>>
      [] cube_layout = 2 -> <<0, 1, 9, -1>>
      [] cube_layout = 3 -> <<1, 8, 3, 9, 8, 1, -1>>
      [] cube_layout = 4 -> <<1, 2, 10, -1>>
      [] cube_layout = 8 -> <<3, 11, 2, -1>>
      [] cube_layout = 9 -> <<0, 11, 2, 8, 11, 0, -1>>
      [] cube_layout = 15 -> <<9, 8, 10, 10, 8, 11, -1>>
      [] cube_layout = 16 -> <<4, 7, 8, -1>>
      [] cube_layout = 17 -> <<4, 3, 0, 7, 3, 4, -1>>
      [] cube_layout = 32 -> <<9, 5, 4, -1>>
      [] cube_layout = 64 -> <<10, 6, 5, -1>>
      [] cube_layout = 65 -> <<0, 8, 3, 5, 10, 6, -1>>
      [] cube_layout = 128 -> <<7, 6, 11, -1>>
      [] cube_layout = 240 -> <<11, 10, 8, 8, 10, 9, -1>>
      [] cube_layout = 255 -> <<-1>>

\* edge_vertex: the point of the edge where the field crosses the threshold
edge_vertex(cube_vertices, edge) ==
    LET a == cube_vertices[EDGE_TABLE[edge + 1][1] + 1]
        b == cube_vertices[EDGE_TABLE[edge + 1][2] + 1]
        \* Vec3::lerp(a_voxel, b_voxel, t) * VOXEL_SIZE on one axis, for
        \* t = (SURFACE_THRESHOLD - a_val) / (b_val - a_val)
        lerp(k) == a.pos[k] * VOXEL_SIZE
                       + ((b.pos[k] - a.pos[k]) * (SURFACE_THRESHOLD - a.val) * VOXEL_SIZE)
                             \div (b.val - a.val)
    IN <<lerp(1), lerp(2), lerp(3)>>

\* the loop of voxel_triangles stopping at an edge that is not positive
RECURSIVE EdgeTriangles_stopsAtZero(_, _, _)
EdgeTriangles_stopsAtZero(cube_indeces, edges, i) ==
    IF edges[i + 1] <= 0 THEN <<>>
    ELSE << Triangle(edge_vertex(cube_indeces, edges[i + 1]),
                     edge_vertex(cube_indeces, edges[i + 2]),
                     edge_vertex(cube_indeces, edges[i + 3])) >>
             \o EdgeTriangles_stopsAtZero(cube_indeces, edges, i + 3)

\* the loop of voxel_triangles over the edges of a row of the table
RECURSIVE EdgeTriangles(_, _, _)
EdgeTriangles(cube_indeces, edges, i) ==
    IF edges[i + 1] = -1 THEN <<>>
    ELSE << Triangle(edge_vertex(cube_indeces, edges[i + 1]),
                     edge_vertex(cube_indeces, edges[i + 2]),
                     edge_vertex(cube_indeces, edges[i + 3])) >>
             \o EdgeTriangles(cube_indeces, edges, i + 3)

\* voxel_triangles keeping in the cache only the voxel it was called for
voxel_triangles_forgets(field, cache, voxel) ==
    IF voxel \in DOMAIN cache THEN [triangles |-> cache[voxel], cache |-> cache]
    ELSE LET cube_indeces == CubeCorners(field, voxel)
             edges == TRIANGULATION_TABLE(CubeLayout(cube_indeces, 0))
             triangles == EdgeTriangles(cube_indeces, edges, 0)
         IN [triangles |-> triangles, cache |-> (voxel :> triangles)]

\* voxel_triangles caching the list without its first triangle
voxel_triangles_cachesTail(field, cache, voxel) ==
    IF voxel \in DOMAIN cache THEN [triangles |-> cache[voxel], cache |-> cache]
    ELSE LET cube_indeces == CubeCorners(field, voxel)
             edges == TRIANGULATION_TABLE(CubeLayout(cube_indeces, 0))
             triangles == EdgeTriangles(cube_indeces, edges, 0)
         IN [triangles |-> triangles,
             cache |-> cache @@ (voxel :> IF triangles = <<>> THEN <<>>
                                          ELSE Tail(triangles))]

\* World::voxel_triangles: [triangles, cache]
voxel_triangles(field, cache, voxel) ==
    IF voxel \in DOMAIN cache THEN [triangles |-> cache[voxel], cache |-> cache]
    ELSE LET cube_indeces == CubeCorners(field, voxel)
             edges == TRIANGULATION_TABLE(CubeLayout(cube_indeces, 0))
             triangles == EdgeTriangles(cube_indeces, edges, 0)
         IN [triangles |-> triangles, cache |-> cache @@ (voxel :> triangles)]

\* World::retrieve_triangles over the voxels of offs: [tri_list, cache], with
\* the list voxel_triangles returned for each voxel (history)
RECURSIVE RetrieveLoop(_, _, _, _, _)
RetrieveLoop(field, cache, base_voxel, offs, k) ==
    IF k > Len(offs) THEN [tri_list |-> <<>>, cache |-> cache, returned |-> {}]
    ELSE LET voxel == << base_voxel[1] + offs[k][1], base_voxel[2] + offs[k][2],
                         base_voxel[3] + offs[k][3] >>
             r == voxel_triangles(field, cache, voxel)
             rest == RetrieveLoop(field, r.cache, base_voxel, offs, k + 1)
         IN [tri_list |-> r.triangles \o rest.tri_list, cache |-> rest.cache,
             returned |-> {<<voxel, r.triangles>>} \cup rest.returned]

\* itertools::iproduct!(-off_dist..=off_dist, ...), in its order
RECURSIVE Range(_, _)
Range(lo, hi) == IF lo > hi THEN <<>> ELSE <<lo>> \o Range(lo + 1, hi)

RECURSIVE Product(_, _, _)
Product(r, i, j) ==
    IF i > Len(r) THEN <<>>
    ELSE IF j > Len(r) * Len(r) THEN Product(r, i + 1, 1)
    ELSE << <<r[i], r[((j - 1) \div Len(r)) + 1], r[((j - 1) % Len(r)) + 1]>> >>
             \o Product(r, i, j + 1)

\* World::retrieve_triangles
retrieve_triangles(field, cache, center, dist) ==
    LET base_voxel == VoxelOf(center)
        off_dist == (dist + VOXEL_SIZE - 1) \div VOXEL_SIZE
    IN RetrieveLoop(field, cache, base_voxel, Product(Range(-off_dist, off_dist), 1, 1), 1)

\* the body of the loop of voxel_collision for one triangle: the t of the
\* hit, or None where the loop continues
TriangleHit(ray, triangle) ==
    LET e1 == sub(triangle.b, triangle.a)
        e2 == sub(triangle.c, triangle.a)
        p == cross(ray.dir, e2)
        det == dot(e1, p)
        sign == IF det < 0 THEN -1 ELSE 1
        tv == sub(ray.pos, triangle.a)
        \* u, v and t are these over abs(det)
        u == dot(tv, p) * sign
        q == cross(tv, e1)
        v == dot(ray.dir, q) * sign
        t == dot(e2, q) * sign
    IN IF abs(det) * EPSILON_INV < 1 THEN None
       ELSE IF u < 0 \/ u > abs(det) THEN None
       ELSE IF v < 0 \/ u + v > abs(det) THEN None
       ELSE IF t * EPSILON_INV < abs(det) THEN None
       ELSE Some([n |-> t, d |-> abs(det)])

RECURSIVE FirstHit(_, _, _)
FirstHit(ray, triangles, k) ==
    IF k > Len(triangles) THEN None
    ELSE IF TriangleHit(ray, triangles[k]).some THEN TriangleHit(ray, triangles[k])
    ELSE FirstHit(ray, triangles, k + 1)

\* the loop of voxel_collision over the list r.triangles that voxel_triangles
\* returned: [hit, cache], with that list (history)
CollisionIn(ray, r) ==
    [hit |-> FirstHit(ray, r.triangles, 1), cache |-> r.cache, triangles |-> r.triangles]

\* World::voxel_collision
voxel_collision(field, cache, voxel, ray) ==
    CollisionIn(ray, voxel_triangles(field, cache, voxel))

\* ray.pos + t * ray.dir, as the point num / den
HitPoint(ray, t) ==
    [num |-> << ray.pos[1] * t.d + t.n * ray.dir[1],
                ray.pos[2] * t.d + t.n * ray.dir[2],
                ray.pos[3] * t.d + t.n * ray.dir[3] >>,
     den |-> t.d]

\* handle_hit with the distance compared to dist instead of dist * dist
handle_hit_unsquared(ray, t, dist) ==
    LET hit_point == HitPoint(ray, t)
        num == <<ray.pos[1] * hit_point.den, ray.pos[2] * hit_point.den,
                 ray.pos[3] * hit_point.den>>
    IN IF dist <= 0
          \/ distance_squared(num, hit_point.num) <= dist * hit_point.den * hit_point.den
       THEN Some(hit_point) ELSE None

\* handle_hit
handle_hit(ray, t, dist) ==
    LET hit_point == HitPoint(ray, t)
        num == <<ray.pos[1] * hit_point.den, ray.pos[2] * hit_point.den,
                 ray.pos[3] * hit_point.den>>
    IN IF dist <= 0
          \/ distance_squared(num, hit_point.num)
                <= dist * dist * hit_point.den * hit_point.den
       THEN Some(hit_point) ELSE None

\* |x| (x < 0.0).then_some(-1.0).unwrap_or(1.0)
StepOf(x) == IF x < 0 THEN -1 ELSE 1

\* the t of the next voxel boundary on axis i
InitialT(ray, i) ==
    LET min == (ray.pos[i] \div VOXEL_SIZE) * VOXEL_SIZE
        max == min + VOXEL_SIZE
        t1 == FMul(min - ray.pos[i], FInv(ray.dir[i]))
        t2 == FMul(max - ray.pos[i], FInv(ray.dir[i]))
    IN FMax(t1, t2)

\* delta_t on axis i
DeltaT(ray, i) == FMul(StepOf(ray.dir[i]), FMul(VOXEL_SIZE, FInv(ray.dir[i])))

\* the number of passes of the traversal loop
VoxelDist(dist) ==
    IF dist <= 0 THEN MAX_RAY_DIST
    ELSE LET cells == (dist + VOXEL_SIZE - 1) \div VOXEL_SIZE
         IN IF cells > MAX_RAY_DIST THEN cells ELSE MAX_RAY_DIST

\* the end of a pass of the traversal loop: the state of the loop after the
\* collision test c of new_voxel
AfterCollision(ray, dist, st, new_voxel, new_t, c) ==
    [done |-> c.hit.some,
     result |-> IF c.hit.some THEN handle_hit(ray, c.hit.val, dist) ELSE None,
     found |-> c.hit, steps |-> st.steps + 1, cache |-> c.cache,
     cur_voxel |-> new_voxel, t |-> new_t,
     returned |-> st.returned \cup {<<new_voxel, c.triangles>>}]

\* one pass of the traversal loop of raycast; st is the state of the loop:
\* the cache, cur_voxel and t, with the number of passes made, the list
\* voxel_triangles returned for each voxel and, once a pass has returned, the
\* value returned
Pass(field, ray, dist, st) ==
    IF st.done THEN st
    ELSE LET t == st.t
             voxel_incr ==
                 << IF FLe(t[1], t[2]) /\ FLe(t[1], t[3]) THEN 1 ELSE 0,
                    IF FLe(t[2], t[1]) /\ FLe(t[2], t[3]) THEN 1 ELSE 0,
                    IF FLe(t[3], t[1]) /\ FLe(t[3], t[2]) THEN 1 ELSE 0 >>
             new_t == << FAdd(t[1], FMul(voxel_incr[1], DeltaT(ray, 1))),
                         FAdd(t[2], FMul(voxel_incr[2], DeltaT(ray, 2))),
                         FAdd(t[3], FMul(voxel_incr[3], DeltaT(ray, 3))) >>
             new_voxel == << st.cur_voxel[1] + voxel_incr[1] * StepOf(ray.dir[1]),
                             st.cur_voxel[2] + voxel_incr[2] * StepOf(ray.dir[2]),
                             st.cur_voxel[3] + voxel_incr[3] * StepOf(ray.dir[3]) >>
         IN AfterCollision(ray, dist, st, new_voxel, new_t,
                           voxel_collision(field, st.cache, new_voxel, ray))

\* n passes of the traversal loop, or fewer when one of them returns: the
\* first half of them, then the rest
RECURSIVE Passes(_, _, _, _, _)
Passes(field, ray, dist, st, n) ==
    IF n = 0 THEN st
    ELSE IF n = 1 THEN Pass(field, ray, dist, st)
    ELSE LET first == Passes(field, ray, dist, st, n \div 2)
         IN IF first.done THEN first
            ELSE Passes(field, ray, dist, first, n - n \div 2)

\* raycast from the collision test c of the origin voxel cur_voxel on: the
\* value returned, with the hit voxel_collision found, the number of passes
\* of the traversal loop, the cache, the last cur_voxel and the list
\* voxel_triangles returned for each voxel (history)
RaycastFrom(field, ray, dist, cur_voxel, c) ==
    IF c.hit.some
    THEN [result |-> handle_hit(ray, c.hit.val, dist), found |-> c.hit,
          steps |-> 0, cache |-> c.cache,
          returned |-> {<<cur_voxel, c.triangles>>}, cur_voxel |-> cur_voxel]
    ELSE Passes(field, ray, dist,
                [done |-> FALSE, result |-> None, found |-> None, steps |-> 0,
                 cache |-> c.cache, cur_voxel |-> cur_voxel,
                 t |-> <<InitialT(ray, 1), InitialT(ray, 2), InitialT(ray, 3)>>,
                 returned |-> {<<cur_voxel, c.triangles>>}],
                VoxelDist(dist))

\* World::raycast
raycast(field, cache, ray, dist) ==
    RaycastFrom(field, ray, dist, VoxelOf(ray.pos),
                voxel_collision(field, cache, VoxelOf(ray.pos), ray))

\* a square of four corners at height y, from (x, z) to (x + 1, z + 1)
Square(x, y, z) == { <<x, y, z>>, <<x + 1, y, z>>, <<x, y, z + 1>>, <<x + 1, y, z + 1>> }

\* the noise fields: a floor in voxel (2, 1, 2); the voxel (0, 0, 0) solid;
\* two opposite corners of the voxel (0, 0, 0) below the threshold
Fields ==
    { [below |-> Square(2, 1, 2), low |-> 4, high |-> 9],
      [below |-> Square(0, 0, 0) \cup Square(0, 1, 0), low |-> 4, high |-> 9],
      [below |-> { <<0, 0, 0>>, <<1, 1, 1>> }, low |-> 1, high |-> 6] }

\* the rays and maximum distances handed to raycast
Casts ==
    LET toward == Ray(vec3(1, -1, 1), vec3(2, 1, 2))
        away == Ray(vec3(-9, -9, -9), vec3(-2, -1, -2))
        up == Ray(vec3(1, 1, 1), vec3(0, 1, 0))
        inward == Ray(vec3(4, 4, 4), vec3(-1, -1, -1))
    IN { <<toward, -1>>, <<toward, 0>>, <<toward, 10>>, <<toward, 15>>, <<toward, 20>>,
         <<away, -1>>, <<away, 1505>>, <<up, -1>>, <<inward, -1>> }

\* the centers and radii handed to retrieve_triangles
Retrievals == { <<vec3(17, 12, 17), 3>>, <<vec3(11, 6, 11), 0>>, <<vec3(1, 1, 1), -7>> }

\* ------------------------------------------------------------------ actions
OctreeInit ==
    /\ root = 0
    /\ bucket_size \in BucketSizes
    /\ octants = <<Octant(vec3(0, 0, 0), BASE_EXTENSION, Leaf(<<>>))>>
    /\ n_inserted = 0
    /\ lastInsert = [op |-> "none"]

\* self.marker.octree.insert(Mark { pos })
Insert(p) ==
    LET r == insert([root |-> root, octants |-> octants], Mark(p), bucket_size)
        c == [op |-> "insert", mark |-> Mark(p), status |-> r.status,
              contained |-> contains(octants[root + 1], Mark(p)),
              oldRoot |-> root, oldLen |-> Len(octants), oldCount |-> count]
    IN /\ call.status = "ok"
       /\ n_inserted < MaxMarks
       /\ r.status \notin {"unbounded", "resolution"}
       /\ root' = r.root
       /\ octants' = r.octants
       /\ n_inserted' = n_inserted + 1
       /\ lastInsert' = c
       /\ call' = c
       /\ UNCHANGED bucket_size
       /\ UNCHANGED wvars
       /\ UNCHANGED mvars

\* octree.get_visible(&mut vec, pos, frustum); call.vec is the buffer as the
\* call leaves it.  The call reads the octree and its arguments only, so one
\* that directly follows another get_visible call reaches the states the
\* first one reaches: the model takes the calls that follow new or insert.
GetVisible(vec, pos, frustum) ==
    /\ call.status = "ok"
    /\ call.op # "get_visible"
    /\ \E out \in get_visible(vec, octants, root, pos, frustum) :
         call' = [op |-> "get_visible", status |-> "ok", pos |-> pos,
                  frustum |-> frustum, capBefore |-> vec.capacity, vec |-> out]
    /\ UNCHANGED <<root, bucket_size, octants, n_inserted, lastInsert>>
    /\ UNCHANGED wvars
    /\ UNCHANGED mvars

\* the fields of Marker::new besides the octree
MarkerInit ==
    /\ marker_timer = 0
    /\ should_cast = FALSE
    /\ instances = Buffer(INST_N, <<>>)
    /\ n_marks = 0
    /\ pc = "idle"

\* World::new
WorldInit ==
    /\ noise \in Fields
    /\ triangle_cache = <<>>
    /\ n_casts = 0
    /\ first_returned = [lists |-> <<>>, retrievals |-> <<>>]

\* first_returned.lists after a call in which voxel_triangles returned the lists of
\* returned
FirstLists(returned) ==
    LET voxels == {p[1] : p \in returned} \ DOMAIN first_returned.lists
    IN first_returned.lists @@ [v \in voxels |-> (CHOOSE p \in returned : p[1] = v)[2]]

\* self.world.raycast(ray, dist)
Raycast(ray, dist) ==
    LET r == raycast(noise, triangle_cache, ray, dist)
    IN /\ n_casts < MaxCasts
       /\ triangle_cache' = r.cache
       /\ n_casts' = n_casts + 1
       /\ call' = [op |-> "raycast", status |-> "ok", ray |-> ray, dist |-> dist,
                   result |-> r.result, found |-> r.found, steps |-> r.steps,
                   returned |-> r.returned, cur_voxel |-> r.cur_voxel,
                   cacheBefore |-> triangle_cache]
       /\ first_returned' = [first_returned EXCEPT !.lists = FirstLists(r.returned)]
       /\ UNCHANGED noise
       /\ UNCHANGED ovars
       /\ UNCHANGED mvars

\* self.world.retrieve_triangles(center, dist)
Retrieve(center, dist) ==
    LET r == retrieve_triangles(noise, triangle_cache, center, dist)
    IN /\ n_casts < MaxCasts
       /\ triangle_cache' = r.cache
       /\ n_casts' = n_casts + 1
       /\ call' = [op |-> "retrieve_triangles", status |-> "ok", center |-> center,
                   dist |-> dist, result |-> r.tri_list, returned |-> r.returned,
                   cacheBefore |-> triangle_cache,
                   again |-> <<center, dist>> \in DOMAIN first_returned.retrievals]
       /\ first_returned' = [lists |-> FirstLists(r.returned),
                    retrievals |->
                        IF <<center, dist>> \in DOMAIN first_returned.retrievals
                        THEN first_returned.retrievals
                        ELSE first_returned.retrievals @@ (<<center, dist>> :> r.tri_list)]
       /\ UNCHANGED noise
       /\ UNCHANGED ovars
       /\ UNCHANGED mvars

\* the octree of a new Marker, with no terrain to cast at
Init ==
    /\ OctreeInit
    /\ noise = [below |-> {}, low |-> 4, high |-> 9]
    /\ triangle_cache = <<>>
    /\ n_casts = 0
    /\ first_returned = [lists |-> <<>>, retrievals |-> <<>>]
    /\ call = [op |-> "new", status |-> "ok"]
    /\ MarkerInit

Next ==
    \/ \E p \in Points : Insert(p)
    \/ \E q \in Queries : GetVisible(q[1], q[2], q[3])

Spec == Init /\ [][Next]_vars

\* the world, with the octree Marker::new makes
RayInit ==
    /\ WorldInit
    /\ root = 0
    /\ bucket_size = 128
    /\ octants = <<Octant(vec3(0, 0, 0), BASE_EXTENSION, Leaf(<<>>))>>
    /\ n_inserted = 0
    /\ lastInsert = [op |-> "none"]
    /\ call = [op |-> "new", status |-> "ok"]
    /\ MarkerInit

RayNext ==
    \/ \E c \in Casts : Raycast(c[1], c[2])
    \/ \E c \in Retrievals : Retrieve(c[1], c[2])

SpecRay == RayInit /\ [][RayNext]_vars

\* the rays of the traversals that are followed pass by pass
StepRays == {c[1] : c \in Casts}

\* self.world.raycast(ray, -1.0) up to its loop: the collision test of the
\* origin voxel; call.st is the state of the traversal loop, call.left the
\* number of passes that remain
BeginCast(ray) ==
    LET c == voxel_collision(noise, triangle_cache, VoxelOf(ray.pos), ray)
    IN /\ call.op = "new"
       /\ triangle_cache' = c.cache
       /\ call' = [op |-> "traversal", status |-> "ok", ray |-> ray,
                   left |-> IF c.hit.some THEN 0 ELSE VoxelDist(-1),
                   st |-> [done |-> c.hit.some,
                           result |-> IF c.hit.some
                                      THEN handle_hit(ray, c.hit.val, -1) ELSE None,
                           found |-> c.hit, steps |-> 0, cache |-> c.cache,
                           cur_voxel |-> VoxelOf(ray.pos),
                           t |-> <<InitialT(ray, 1), InitialT(ray, 2), InitialT(ray, 3)>>,
                           returned |-> {<<VoxelOf(ray.pos), c.triangles>>}]]
       /\ UNCHANGED <<noise, n_casts, first_returned>>
       /\ UNCHANGED ovars
       /\ UNCHANGED mvars

\* one pass of the traversal loop of the raycast under way
Step ==
    /\ call.op = "traversal"
    /\ call.left > 0
    /\ ~call.st.done
    /\ \E st \in {Pass(noise, call.ray, -1, call.st)} :
         /\ call' = [call EXCEPT !.st = st, !.left = IF st.done THEN 0 ELSE @ - 1]
         /\ triangle_cache' = st.cache
    /\ UNCHANGED <<noise, n_casts, first_returned>>
    /\ UNCHANGED ovars
    /\ UNCHANGED mvars

StepNext ==
    \/ \E ray \in StepRays : BeginCast(ray)
    \/ Step

SpecStep == RayInit /\ [][StepNext]_vars

\* ---------------------------------------------------------------- the marker
\* times are whole numbers of TimeUnit, 0.00025 s
MARKER_COOLDOWN == 2

\* the frame times handed to update_marker
Dts == {0, 3}

\* the rays camera.cast_ray() draws
MarkerRays == { Ray(vec3(1, -1, 1), vec3(2, 1, 2)), Ray(vec3(1, 1, 1), vec3(0, 1, 0)) }

\* the viewpoints and frusta of the camera
Views == { <<NearView, AllSpace>>, <<FarView, HalfSpace>> }

\* the hit point as a position of the octree
PointOf(hit_point) ==
    vec3((hit_point.num[1] * Scale) \div hit_point.den,
         (hit_point.num[2] * Scale) \div hit_point.den,
         (hit_point.num[3] * Scale) \div hit_point.den)

\* Marker::spawn_mark with n_marks wrongly compared by <=
spawn_mark_atCapacity(marks, position) ==
    IF marks <= INST_N
    THEN [n_marks |-> marks + 1, writes |-> {marks}]
    ELSE [n_marks |-> marks, writes |-> {}]

\* Marker::spawn_mark: n_marks after the call and the slots of the instance
\* buffer the call writes
spawn_mark(marks, position) ==
    IF marks < INST_N
    THEN [n_marks |-> marks + 1, writes |-> {marks}]
    ELSE [n_marks |-> marks, writes |-> {}]

\* the key handler sets or clears should_cast between two frames
SetCast(b) ==
    /\ pc = "idle"
    /\ should_cast # b
    /\ should_cast' = b
    /\ UNCHANGED <<marker_timer, instances, n_marks, pc, call>>
    /\ UNCHANGED ovars
    /\ UNCHANGED wvars

\* State::update_marker up to its loop
UpdateMarker(dt) ==
    /\ pc = "idle"
    /\ marker_timer' = IF marker_timer < 0 THEN 0 ELSE marker_timer - dt
    /\ pc' = "loop"
    /\ call' = [op |-> "update_marker", status |-> "ok", dt |-> dt,
                should_cast |-> should_cast, casts |-> 0, hits |-> 0,
                oldCount |-> count]
    /\ UNCHANGED <<should_cast, instances, n_marks>>
    /\ UNCHANGED ovars
    /\ UNCHANGED wvars

\* the end of a pass of the loop whose raycast hit: r is the result of
\* self.marker.octree.insert(Mark { pos })
InsertHit(r) ==
    /\ r.status \in {"ok", "unbounded"}
    /\ root' = IF r.status = "ok" THEN r.root ELSE root
    /\ octants' = IF r.status = "ok" THEN r.octants ELSE octants
    /\ pc' = IF r.status = "ok" THEN "loop" ELSE "insert"
    /\ call' = [call EXCEPT !.casts = @ + 1, !.hits = @ + 1, !.status = r.status]

\* the end of a pass of the loop after the raycast r
AfterCast(r) ==
    /\ triangle_cache' = r.cache
    /\ first_returned' = [first_returned EXCEPT !.lists = FirstLists(r.returned)]
    /\ IF r.result.some
       THEN InsertHit(insert([root |-> root, octants |-> octants],
                             Mark(PointOf(r.result.val)), bucket_size))
       ELSE /\ call' = [call EXCEPT !.casts = @ + 1]
            /\ UNCHANGED <<root, octants, pc>>

\* one pass of the loop of update_marker, with the ray cast_ray draws
CastPass(ray) ==
    /\ pc = "loop"
    /\ marker_timer <= 0 /\ should_cast
    /\ n_casts < MaxCasts
    /\ marker_timer' = marker_timer + MARKER_COOLDOWN
    /\ n_casts' = n_casts + 1
    /\ AfterCast(raycast(noise, triangle_cache, ray, -1))
    /\ UNCHANGED <<bucket_size, n_inserted, lastInsert, noise>>
    /\ UNCHANGED <<should_cast, instances, n_marks>>

\* the test of the loop fails: update_marker returns
LoopExit ==
    /\ pc = "loop"
    /\ ~(marker_timer <= 0 /\ should_cast)
    /\ pc' = "idle"
    /\ UNCHANGED <<marker_timer, should_cast, instances, n_marks, call>>
    /\ UNCHANGED ovars
    /\ UNCHANGED wvars

\* State::render_markers: the instances get_visible leaves in the list are
\* written to the instance buffer from slot 0 on and drawn
RenderMarkers(pos, frustum) ==
    /\ pc = "idle"
    /\ \E out \in get_visible(instances, octants, root, pos, frustum) :
         /\ instances' = out
         /\ call' = [op |-> "render_markers", status |-> "ok",
                     writes |-> 0..(Len(out.data) - 1), drawn |-> Len(out.data)]
    /\ UNCHANGED <<marker_timer, should_cast, n_marks, pc>>
    /\ UNCHANGED ovars
    /\ UNCHANGED wvars

\* the end of cast_mark after the raycast r
AfterCastMark(r) ==
    /\ triangle_cache' = r.cache
    /\ first_returned' = [first_returned EXCEPT !.lists = FirstLists(r.returned)]
    /\ \E m \in { IF r.result.some THEN spawn_mark(n_marks, r.result.val)
                   ELSE [n_marks |-> n_marks, writes |-> {}] } :
         /\ n_marks' = m.n_marks
         /\ call' = [op |-> "cast_mark", status |-> "ok", found |-> r.result.some,
                     before |-> n_marks, writes |-> m.writes]

\* State::cast_mark of the marker that counts its instances
CastMark(ray) ==
    /\ pc = "idle"
    /\ AfterCastMark(raycast(noise, triangle_cache, ray, -1))
    /\ UNCHANGED <<marker_timer, should_cast, instances, pc>>
    /\ UNCHANGED <<noise, n_casts>>
    /\ UNCHANGED ovars

\* the world and the marker as State::new makes them; the bucket sizes of
\* the model stand for the 128 of Marker::new
MarkerSpecInit ==
    /\ WorldInit
    /\ OctreeInit
    /\ call = [op |-> "new", status |-> "ok"]
    /\ MarkerInit

MarkerNext ==
    \/ \E b \in BOOLEAN : SetCast(b)
    \/ \E dt \in Dts : UpdateMarker(dt)
    \/ \E ray \in MarkerRays : CastPass(ray)
    \/ LoopExit
    \/ \E v \in Views : RenderMarkers(v[1], v[2])
    \/ \E ray \in MarkerRays : CastMark(ray)

SpecMarker == MarkerSpecInit /\ [][MarkerNext]_vars

\* an insert call that does not return: the descent reaches a full leaf whose
\* marks are all at the position of the new mark (none, when bucket_size is
\* 0), and from there every pass of the loop splits the leaf it stands on
InsertDiverges(p) ==
    LET r == insert([root |-> root, octants |-> octants], Mark(p), bucket_size)
    IN /\ call.status = "ok"
       /\ n_inserted < MaxMarks
       /\ r.status = "unbounded"
       /\ call' = [op |-> "insert", mark |-> Mark(p), status |-> r.status,
                   leaf |-> r.octants[r.id + 1], oldCount |-> count]
       /\ UNCHANGED ovars
       /\ UNCHANGED wvars
       /\ UNCHANGED mvars

\* an octree of any bucket size, Octree::new(0) included
InsertInit ==
    /\ root = 0
    /\ bucket_size \in BucketSizes \cup {0}
    /\ octants = <<Octant(vec3(0, 0, 0), BASE_EXTENSION, Leaf(<<>>))>>
    /\ n_inserted = 0
    /\ lastInsert = [op |-> "none"]
    /\ noise = [below |-> {}, low |-> 4, high |-> 9]
    /\ triangle_cache = <<>>
    /\ n_casts = 0
    /\ first_returned = [lists |-> <<>>, retrievals |-> <<>>]
    /\ call = [op |-> "new", status |-> "ok"]
    /\ MarkerInit

InsertNext ==
    \/ \E p \in Points : Insert(p)
    \/ \E p \in Points : InsertDiverges(p)

SpecInsert == InsertInit /\ [][InsertNext]_vars

\* ------------------------------------------------------- octree properties
OctIds == 0..(Len(octants) - 1)

IsLeaf(id) == octants[id + 1].content.tag = "Leaf"

IsParent(id) == octants[id + 1].content.tag = "Parent"

ChildrenOf(id) == {octants[id + 1].content.children[k] : k \in 1..8}

\* a parent made by splitting a leaf: its children were appended after it
IsSplit(id) == IsParent(id) /\ \A c \in ChildrenOf(id) : c > id

\* the parent whose children array holds id
ParentOf(id) == CHOOSE p \in OctIds : IsParent(p) /\ id \in ChildrenOf(p)

\* the octants from the root down to id, both included
RECURSIVE PathTo(_)
PathTo(id) == IF id = root THEN <<root>> ELSE Append(PathTo(ParentOf(id)), id)

PassesFrustum(id, frustum) == \A i \in 1..6 : collide(octants[id + 1], frustum[i])

DistTo(id, pos) == distance_squared(octants[id + 1].center, pos)

\* the elements of the buffer, as <<leaf, bucket index>>
Kept == {call.vec.from[k] : k \in 1..Len(call.vec.from)}

\* the marks, as <<leaf, bucket index>>, of the leaves under id that are
\* reached through octants passing every plane of the frustum
RECURSIVE VisibleUnder(_, _)
VisibleUnder(id, frustum) ==
    IF IsLeaf(id) THEN {<<id, k>> : k \in 1..Len(octants[id + 1].content.data)}
    ELSE UNION {VisibleUnder(c, frustum) :
                  c \in {d \in ChildrenOf(id) : PassesFrustum(d, frustum)}}

\* what the last get_visible call puts in a buffer that holds every mark
FullVisible == VisibleUnder(root, call.frustum)

\* for two leaves, the sibling octants <<a, b>> under which they part: a
\* holds leaf1, b holds leaf2, and a, b are children of the same parent
Siblings(leaf1, leaf2) ==
    LET p1 == PathTo(leaf1)
        p2 == PathTo(leaf2)
        m == CHOOSE m \in 2..Len(p1) : p1[m] # p2[m] /\ \A n \in 1..(m - 1) : p1[n] = p2[n]
    IN <<p1[m], p2[m]>>

\* the sibling holding leaf1 is farther from pos than the one holding leaf2
FartherSibling(leaf1, leaf2, pos) ==
    /\ leaf1 # leaf2
    /\ LET ab == Siblings(leaf1, leaf2) IN DistTo(ab[1], pos) > DistTo(ab[2], pos)

\* C1: every mark stored in a leaf lies within the cube of that leaf
C1_MarksInsideLeaf ==
    \A id \in OctIds :
        IsLeaf(id) =>
            \A k \in 1..Len(octants[id + 1].content.data) :
                contains(octants[id + 1], octants[id + 1].content.data[k])

\* C2: after n insert calls count() is n
C2_CountIsInserts == count = n_inserted

C2_Witness ==
    /\ n_inserted >= 3
    /\ count = n_inserted
    /\ root # 0
    /\ \E id \in OctIds : IsSplit(id)

\* the roots installed by the last insert, from the new root down to the root
\* the call found: each is a parent of twice the half-extent of the root it
\* replaced, has that root as a child, and that root did not contain the mark
RECURSIVE GrowthChain(_)
GrowthChain(id) ==
    \/ id = call.oldRoot
    \/ /\ id >= call.oldLen
       /\ IsParent(id)
       /\ \E c \in ChildrenOf(id) :
            /\ c = call.oldRoot \/ (c >= call.oldLen /\ IsParent(c))
            /\ octants[id + 1].extension = 2 * octants[c + 1].extension
            /\ ~contains(octants[c + 1], call.mark)
            /\ GrowthChain(c)

\* C3: a point outside the root cube is stored, with no index out of range,
\* after new roots of twice the half-extent, each with the old root as a
\* child, were installed until the root cube contained the point
C3_GrowsAndStores ==
    (call.op = "insert" /\ ~call.contained) =>
        /\ call.status = "ok"
        /\ \A id \in OctIds : IsParent(id) => \A c \in ChildrenOf(id) : c \in OctIds
        /\ root \in OctIds
        /\ root # call.oldRoot
        /\ GrowthChain(root)
        /\ contains(octants[root + 1], call.mark)
        /\ count = call.oldCount + 1
        /\ \E id \in OctIds :
               /\ IsLeaf(id)
               /\ \E k \in 1..Len(octants[id + 1].content.data) :
                      octants[id + 1].content.data[k] = to_raw(call.mark)

C3_Witness ==
    /\ call.op = "insert"
    /\ ~call.contained
    /\ call.status = "ok"
    /\ root >= call.oldLen + 15
    /\ count = call.oldCount + 1

\* C4: after get_visible the buffer holds at most capacity elements, its
\* capacity is the one it had before the call, and the visible marks that
\* did not fit are left out
C4_WithinCapacity ==
    call.op = "get_visible" =>
        /\ Len(call.vec.data) <= call.vec.capacity
        /\ call.vec.capacity = call.capBefore
        /\ Len(call.vec.data) = Min(call.capBefore, Cardinality(FullVisible))

C4_Witness ==
    /\ call.op = "get_visible"
    /\ call.vec.capacity >= 1
    /\ Len(call.vec.data) = call.vec.capacity
    /\ Cardinality(FullVisible) > call.vec.capacity

\* C5: no mark in the output has a containing octant, from its leaf up to
\* the root, that fails the test of one of the 6 planes
C5_NoCulledOctant ==
    call.op = "get_visible" =>
        \A e \in Kept :
            LET path == PathTo(e[1])
            IN \A n \in 1..Len(path) : PassesFrustum(path[n], call.frustum)

\* the six half-spaces include all space
IncludesAllSpace(frustum) ==
    \A i \in 1..6 : /\ frustum[i][1] = 0 /\ frustum[i][2] = 0 /\ frustum[i][3] = 0
                    /\ frustum[i][4] <= 0

InOutput(mark) == \E k \in 1..Len(call.vec.data) : call.vec.data[k] = to_raw(mark)

\* get_visible was called after insert(P), the root cube contained P
RoundTripCase ==
    /\ call.op = "get_visible"
    /\ lastInsert.op = "insert"
    /\ lastInsert.contained
    /\ IncludesAllSpace(call.frustum)

\* C6 as stated: a capacity of 1 or more is enough for P to be returned
C6_RoundTripCapOne ==
    (RoundTripCase /\ call.vec.capacity >= 1) => InOutput(lastInsert.mark)

\* C6: round trip: after insert(P) with P in the root cube, get_visible with
\* a frustum that includes all space and a buffer whose capacity is at least
\* count() returns P
C6_RoundTrip ==
    (RoundTripCase /\ call.vec.capacity >= count) => InOutput(lastInsert.mark)

C6_Witness ==
    /\ RoundTripCase
    /\ count >= 2
    /\ call.vec.capacity >= count
    /\ \E id \in OctIds : IsSplit(id)
    /\ InOutput(lastInsert.mark)

\* C7 as stated: no mark of a nearer sibling is dropped while a mark of a
\* farther sibling is kept
C7_NearestRetained ==
    call.op = "get_visible" =>
        LET dropped == FullVisible \ Kept
        IN \A d \in dropped, k \in Kept : ~FartherSibling(k[1], d[1], call.pos)

\* C7: when the capacity truncates the output the farthest content is
\* retained: no mark of a farther sibling is dropped while a mark of a nearer
\* sibling is kept
C7_FarthestRetained ==
    call.op = "get_visible" =>
        LET dropped == FullVisible \ Kept
        IN \A d \in dropped, k \in Kept : ~FartherSibling(d[1], k[1], call.pos)

C7_Witness ==
    /\ call.op = "get_visible"
    /\ Len(call.vec.data) = call.vec.capacity
    /\ LET dropped == FullVisible \ Kept
       IN \E d \in dropped, k \in Kept : FartherSibling(k[1], d[1], call.pos)

\* C8: in the output every mark of a farther sibling octant precedes every
\* mark of a nearer sibling octant
C8_FarFirst ==
    call.op = "get_visible" =>
        \A i, j \in 1..Len(call.vec.from) :
            FartherSibling(call.vec.from[i][1], call.vec.from[j][1], call.pos) => i < j

C8_Witness ==
    /\ call.op = "get_visible"
    /\ \E i, j \in 1..Len(call.vec.from) :
         /\ i < j
         /\ FartherSibling(call.vec.from[i][1], call.vec.from[j][1], call.pos)

\* ---------------------------------------------------- raycaster properties
\* the squared distance from the ray origin to the point num / den, times
\* den * den
DistSqTimesDen2(ray, point) ==
    distance_squared(<<ray.pos[1] * point.den, ray.pos[2] * point.den,
                       ray.pos[3] * point.den>>, point.num)

\* the point is farther from the ray origin than dist
Farther(ray, point, dist) == DistSqTimesDen2(ray, point) > dist * dist * point.den * point.den

\* C9: with max_distance > 0 a hit is returned if and only if it is no
\* farther from the ray origin than max_distance; with max_distance <= 0 the
\* hit found is returned whatever its distance
C9_MaxDistance ==
    call.op = "raycast" =>
        /\ (call.dist > 0 /\ call.result.some) =>
               ~Farther(call.ray, call.result.val, call.dist)
        /\ (call.dist > 0 /\ call.found.some) =>
               (call.result.some <=>
                    ~Farther(call.ray, HitPoint(call.ray, call.found.val), call.dist))
        /\ (call.dist <= 0 /\ call.found.some) =>
               call.result = Some(HitPoint(call.ray, call.found.val))
        /\ call.result.some => call.found.some

\* a hit at distance 15 is dropped for max_distance 10
C9_Witness ==
    /\ call.op = "raycast"
    /\ call.dist = 10
    /\ call.found.some
    /\ DistSqTimesDen2(call.ray, HitPoint(call.ray, call.found.val))
           = 15 * 15 * call.found.val.d * call.found.val.d
    /\ call.result = None

\* C10: raycast makes at most MAX_RAY_DIST passes of the traversal loop, and
\* returns None when the passes are used up without a hit
C10_FixedCap ==
    call.op = "raycast" =>
        /\ call.steps <= MAX_RAY_DIST
        /\ (~call.found.some) => call.result = None

\* ------------------------------------------------------- world properties
\* the voxels voxel_triangles was called for by the last call
Visited == {p[1] : p \in call.returned}

\* the fraction t1 is at most the fraction t2
FracLe(t1, t2) == t1.n * t2.d <= t2.n * t1.d

\* all 8 corner samples of the voxel are below the threshold
AllBelow(voxel) ==
    \A dx, dy, dz \in {0, 1} :
        surface_level(noise, <<voxel[1] + dx, voxel[2] + dy, voxel[3] + dz>>)
            < SURFACE_THRESHOLD

\* no corner sample of the voxel is below the threshold
NoneBelow(voxel) ==
    \A dx, dy, dz \in {0, 1} :
        ~(surface_level(noise, <<voxel[1] + dx, voxel[2] + dy, voxel[3] + dz>>)
              < SURFACE_THRESHOLD)

\* C11: the hit raycast returns without a minimum distance has the smallest
\* t among the triangles of the visited voxels that the ray intersects with
\* t >= EPSILON, also when several of them are triangles of one voxel
C11_NearestHit ==
    (call.op = "raycast" /\ call.dist <= 0 /\ call.found.some) =>
        \A p \in call.returned :
            \A k \in 1..Len(p[2]) :
                TriangleHit(call.ray, p[2][k]).some =>
                    FracLe(call.found.val, TriangleHit(call.ray, p[2][k]).val)

\* C12: a ray whose origin is in a solid voxel gets its hit from the test of
\* the origin voxel: no traversal step is made and a hit is returned
C12_SolidOrigin ==
    (call.op = "raycast" /\ AllBelow(VoxelOf(call.ray.pos))) =>
        /\ call.steps = 0
        /\ call.found.some
        /\ call.dist <= 0 => call.result.some

\* C13: a step leaves the noise field as it is and keeps every entry of the
\* triangle cache with its triangle list
C13_CacheOnlyGrows ==
    [][ /\ noise' = noise
        /\ \A v \in DOMAIN triangle_cache :
               /\ v \in DOMAIN triangle_cache'
               /\ triangle_cache'[v] = triangle_cache[v] ]_vars

\* a call added entries to a cache that had some
C13_Witness ==
    /\ call.op \in {"raycast", "retrieve_triangles"}
    /\ DOMAIN call.cacheBefore # {}
    /\ DOMAIN call.cacheBefore # DOMAIN triangle_cache
    /\ \A v \in DOMAIN call.cacheBefore : triangle_cache[v] = call.cacheBefore[v]

C15_EmptyIffOneSide ==
    call.op \in {"raycast", "retrieve_triangles"} =>
        \A p \in call.returned : (p[2] = <<>>) <=> (AllBelow(p[1]) \/ NoneBelow(p[1]))

\* lists were returned for a solid voxel, a voxel of air and a voxel the
\* surface crosses
C15_Witness ==
    /\ call.op \in {"raycast", "retrieve_triangles"}
    /\ \E v \in DOMAIN first_returned.lists :
           AllBelow(v) /\ first_returned.lists[v] = <<>>
    /\ \E p \in call.returned : NoneBelow(p[1]) /\ p[2] = <<>>
    /\ \E v \in DOMAIN first_returned.lists :
           ~AllBelow(v) /\ ~NoneBelow(v) /\ first_returned.lists[v] # <<>>

\* C16: for a direction with a zero component the traversal never advances
\* along the zero axes and advances to another voxel in every pass
C16_ZeroComponent ==
    (call.op = "raycast" /\ \E i \in 1..3 : call.ray.dir[i] = 0) =>
        /\ \A v \in Visited :
               \A i \in 1..3 : call.ray.dir[i] = 0 => v[i] = VoxelOf(call.ray.pos)[i]
        /\ Cardinality(Visited) = call.steps + 1

\* ------------------------------------------------------ octree structure
\* the child in slot i of the parent id has half the half-extent of the
\* parent, and its center is the parent's, offset by the child's half-extent
\* to the side the bits of i tell
SlotGeometry(id, i) ==
    LET P == octants[id + 1]
        child == octants[P.content.children[i + 1] + 1]
    IN /\ 2 * child.extension = P.extension
       /\ child.center = OffsetCenter(P.center, child.extension, i)

\* C17: for every internal octant and every slot i, the child in slot i has
\* half the parent's half-extent and the center of the octant of the parent's
\* cube that the bits of i select, for split leaves and for grown roots
C17_ChildGeometry ==
    \A id \in OctIds : IsParent(id) => \A i \in 0..7 : SlotGeometry(id, i)

\* the octants the descent for pos goes through from id down to a leaf
RECURSIVE DescentPath(_, _, _)
DescentPath(octs, id, pos) ==
    LET o == octs[id + 1]
    IN IF o.content.tag = "Leaf" THEN {id}
       ELSE {id} \cup DescentPath(octs, o.content.children[ChildId(pos, o.center) + 1],
                                  pos)

\* how many times the sequence data holds m
Occurrences(data, m) == Cardinality({k \in 1..Len(data) : data[k] = m})

\* how many times the leaves under id hold m
RECURSIVE CountUnder(_, _, _)
CountUnder(octs, id, m) ==
    LET o == octs[id + 1]
        RECURSIVE Sum(_)
        Sum(k) == IF k = 0 THEN 0
                  ELSE CountUnder(octs, o.content.children[k], m) + Sum(k - 1)
    IN IF o.content.tag = "Leaf" THEN Occurrences(o.content.data, m) ELSE Sum(8)

\* the full leaf L the descent of an insert reached is, after the insert, a
\* parent of 8 octants appended by the insert, leaves but for the one the
\* descent went on through; slot i holds the marks L held that the rule
\* sends to i, and the new mark if the rule sends it to i
SplitOf(L, before, after, new_mark) ==
    LET o == before[L + 1]
        P == after[L + 1]
        raw == to_raw(new_mark)
        path == DescentPath(after, L, raw.pos)
    IN /\ P.content.tag = "Parent"
       /\ Cardinality({P.content.children[k] : k \in 1..8}) = 8
       /\ \A k \in 1..8 :
              LET c == P.content.children[k]
              IN /\ c >= Len(before)
                 /\ c < Len(after)
                 /\ c \notin path => after[c + 1].content.tag = "Leaf"
                 /\ \A m \in {o.content.data[j] : j \in 1..Len(o.content.data)}
                              \cup {raw} :
                        CountUnder(after, c, m) =
                            IF ChildId(m.pos, o.center) = k - 1
                            THEN Occurrences(o.content.data, m)
                                     + (IF m = raw THEN 1 ELSE 0)
                            ELSE 0

\* C18: an insert whose descent reaches a leaf that holds bucket_size marks
\* makes that octant a parent of 8 newly appended leaves, places every mark
\* the leaf held in the child the rule (bit set iff pos > center) selects,
\* and inserts the new mark by descending on from that octant
C18_SplitFullLeaf ==
    [][ call'.op = "insert" =>
            \A L \in OctIds :
                ( /\ IsLeaf(L)
                  /\ Len(octants[L + 1].content.data) = bucket_size
                  /\ L \in DescentPath(octants', root', call'.mark.pos) )
                    => SplitOf(L, octants, octants', call'.mark) ]_vars

\* an insert split a leaf of the tree it started from, moving a mark out of
\* it, and split the child it went on to as well
C18_Witness ==
    /\ call.op = "insert"
    /\ call.status = "ok"
    /\ \E L \in OctIds :
           /\ L < call.oldLen
           /\ IsParent(L)
           /\ \A c \in ChildrenOf(L) : c >= call.oldLen
           /\ \E c \in ChildrenOf(L) : IsParent(c)
           /\ CountUnder(octants, L, to_raw(call.mark)) = 1
           /\ count = call.oldCount + 1
           /\ count >= 2

\* C19: every leaf holds at most bucket_size marks
C19_BucketBound ==
    \A id \in OctIds : IsLeaf(id) => Len(octants[id + 1].content.data) <= bucket_size

\* a leaf made by a split holds bucket_size marks, with more marks in the
\* tree than one bucket takes
C19_Witness ==
    /\ count > bucket_size
    /\ \E id \in OctIds :
           /\ IsSplit(id)
           /\ \E c \in ChildrenOf(id) :
                  IsLeaf(c) /\ Len(octants[c + 1].content.data) = bucket_size

\* the slots <<parent, k>> that hold the index id
References(id) ==
    {s \in OctIds \X (1..8) :
         IsParent(s[1]) /\ octants[s[1] + 1].content.children[s[2]] = id}

\* the root and the stored child indices are indices of the array, the root
\* is in no slot and every other octant is in exactly one
IsTree ==
    /\ root \in OctIds
    /\ \A id \in OctIds : IsParent(id) => ChildrenOf(id) \subseteq OctIds
    /\ References(root) = {}
    /\ \A id \in OctIds \ {root} : Cardinality(References(id)) = 1

\* a step keeps every octant at its index, with its cube, and a parent with
\* its children
OnlyAppends ==
    /\ Len(octants') >= Len(octants)
    /\ \A id \in OctIds :
           /\ octants'[id + 1].center = octants[id + 1].center
           /\ octants'[id + 1].extension = octants[id + 1].extension
           /\ IsParent(id) => octants'[id + 1].content = octants[id + 1].content

\* C20: the octant array is an arena that forms a tree: a step only appends
\* octants, and before and after it the root and the child indices are below
\* the array length, every octant but the root is in exactly one slot of one
\* parent and the root is in none
C20_ArenaTree == [][OnlyAppends /\ IsTree /\ IsTree']_vars

\* an insert grew the root and split a leaf
C20_Witness ==
    /\ call.op = "insert"
    /\ root >= call.oldLen
    /\ \E id \in OctIds : id < call.oldLen /\ IsParent(id) /\ ChildrenOf(id) # {}
                             /\ \A c \in ChildrenOf(id) : c >= call.oldLen
    /\ IsTree

\* ------------------------------------------------------ collision test
\* det of the test of voxel_collision for the ray and the triangle
Det(ray, triangle) ==
    dot(sub(triangle.b, triangle.a), cross(ray.dir, sub(triangle.c, triangle.a)))

\* u, v and t of the test, each times det
UTimesDet(ray, triangle) ==
    dot(sub(ray.pos, triangle.a), cross(ray.dir, sub(triangle.c, triangle.a)))

VTimesDet(ray, triangle) ==
    dot(ray.dir, cross(sub(ray.pos, triangle.a), sub(triangle.b, triangle.a)))

TTimesDet(ray, triangle) ==
    dot(sub(triangle.c, triangle.a),
        cross(sub(ray.pos, triangle.a), sub(triangle.b, triangle.a)))

\* u in [0, 1], v >= 0, u + v <= 1 and t >= EPSILON
InsideTriangle(ray, triangle) ==
    LET det == Det(ray, triangle)
        u == UTimesDet(ray, triangle)
        v == VTimesDet(ray, triangle)
        t == TTimesDet(ray, triangle)
    IN /\ u * det >= 0
       /\ u * det <= det * det
       /\ v * det >= 0
       /\ (u + v) * det <= det * det
       /\ t * det * EPSILON_INV >= det * det

\* C21: a triangle voxel_collision reports a hit on has a determinant of at
\* least EPSILON (the ray is front-facing and not near-parallel to it), with
\* u in [0, 1], v >= 0, u + v <= 1 and t >= EPSILON
C21_FrontFacingHit ==
    call.op = "raycast" =>
        \A p \in call.returned :
            \A k \in 1..Len(p[2]) :
                TriangleHit(call.ray, p[2][k]).some =>
                    /\ Det(call.ray, p[2][k]) * EPSILON_INV >= 1
                    /\ InsideTriangle(call.ray, p[2][k])

\* --------------------------------------------------------- octree queries
\* C24: while the root has never grown, every stored mark satisfies
\* Octant::contains for the leaf that holds it, marks with a coordinate equal
\* to the center of an ancestor included
C24_NeverGrownContains ==
    root = 0 =>
        \A id \in OctIds :
            IsLeaf(id) =>
                \A k \in 1..Len(octants[id + 1].content.data) :
                    contains(octants[id + 1], octants[id + 1].content.data[k])

\* the position is in the positive half-space of the 6 planes
InFrustum(pos, frustum) ==
    \A i \in 1..6 :
        dot(<<frustum[i][1], frustum[i][2], frustum[i][3]>>, pos) - frustum[i][4] >= 0

\* C25: a get_visible call with a buffer of capacity count() or more returns
\* every stored mark whose position is in the positive half-space of the 6
\* planes of the frustum
C25_ConservativeCulling ==
    (call.op = "get_visible" /\ call.capBefore >= count) =>
        \A id \in OctIds :
            IsLeaf(id) =>
                \A k \in 1..Len(octants[id + 1].content.data) :
                    InFrustum(octants[id + 1].content.data[k].pos, call.frustum)
                        => <<id, k>> \in Kept

\* every element of the buffer is the mark stored at the leaf and bucket
\* index it was copied from, and no two elements were copied from the same
\* place
BufferFromTree ==
    /\ \A k \in 1..Len(call.vec.data) :
           LET e == call.vec.from[k]
           IN /\ e[1] \in OctIds
              /\ IsLeaf(e[1])
              /\ e[2] \in 1..Len(octants[e[1] + 1].content.data)
              /\ call.vec.data[k] = octants[e[1] + 1].content.data[e[2]]
    /\ Cardinality(Kept) = Len(call.vec.data)

\* C26: get_visible leaves the root index, the bucket size and every octant
\* as they were, and after it the buffer holds only marks stored in the tree,
\* each stored mark at most once, and nothing of what it held before
C26_QueryFrame ==
    [][ call'.op = "get_visible" =>
            /\ root' = root
            /\ bucket_size' = bucket_size
            /\ octants' = octants
            /\ count' = count
            /\ BufferFromTree' ]_vars

\* a buffer that held two elements of an earlier use came back with the two
\* marks of the tree the query returns
C26_Witness ==
    /\ call.op = "get_visible"
    /\ call.capBefore = 2
    /\ call.pos = FarView
    /\ call.frustum = HalfSpace
    /\ Len(call.vec.data) = 2
    /\ BufferFromTree

\* ------------------------------------------------------ traversal steps
\* f and g are the same value
SameValue(f, g) ==
    /\ f.kind = g.kind
    /\ f.kind = "fin" => f.n * g.d = g.n * f.d

\* the next-boundary t of axis i is the minimum of the three
Minimal(t, i) == \A j \in 1..3 : FLe(t[i], t[j])

\* the pass from loop state st to loop state st2 advances exactly the axes of
\* minimal t, by one cell and by delta t, and leaves the others as they were
AdvancesMinimal(ray, st, st2) ==
    \A i \in 1..3 :
        IF Minimal(st.t, i)
        THEN /\ st2.cur_voxel[i] = st.cur_voxel[i] + StepOf(ray.dir[i])
             /\ SameValue(st2.t[i], FAdd(st.t[i], DeltaT(ray, i)))
        ELSE /\ st2.cur_voxel[i] = st.cur_voxel[i]
             /\ SameValue(st2.t[i], st.t[i])

\* C22: each pass of the traversal loop moves the current voxel by one cell,
\* in the direction of the ray's sign, along exactly the axes whose t is the
\* minimum of the three, and adds delta t to the t of those axes only; when
\* no t is NaN at least one axis advances.
C22_StepAdvance ==
    [][ (call.op = "traversal" /\ call'.op = "traversal"
            /\ call'.st.steps = call.st.steps + 1) =>
            /\ AdvancesMinimal(call.ray, call.st, call'.st)
            /\ (\A i \in 1..3 : call.st.t[i].kind # "nan") =>
                   call'.st.cur_voxel # call.st.cur_voxel ]_vars

\* ------------------------------------------------------ insert termination
\* C23: every insert call returns, whatever the point and the state of the
\* octree: also when the point is at the position of bucket_size marks of the
\* same full leaf, and when bucket_size is 0.
C23_InsertTerminates ==
    call.op = "insert" => call.status = "ok"

\* C23 for bucket_size >= 1 and fewer than bucket_size + 1 marks at one position
C23_DistinctTerminates ==
    (call.op = "insert" /\ call.status # "ok") =>
        \/ bucket_size = 0
        \/ /\ Len(call.leaf.content.data) >= bucket_size
           /\ Coincident(call.leaf, call.mark)

\* ----------------------------------------------------------- marker frames
\* C27: the loop of update_marker ends; a call made with should_cast false
\* casts no ray and inserts nothing, and a call made with should_cast true
\* returns with marker_timer > 0 and has inserted one mark for every raycast
\* that hit and none for a miss.
C27_CooldownLoop ==
    /\ pc # "insert"
    /\ (call.op = "update_marker" /\ pc = "idle") =>
           /\ ~call.should_cast => (call.casts = 0 /\ count = call.oldCount)
           /\ call.should_cast =>
                  (marker_timer > 0 /\ count = call.oldCount + call.hits)

\* C27 for the calls that return
C27_ReturnedCalls ==
    (call.op = "update_marker" /\ pc = "idle") =>
        /\ ~call.should_cast => (call.casts = 0 /\ count = call.oldCount)
        /\ call.should_cast =>
               (marker_timer > 0 /\ count = call.oldCount + call.hits)

\* C28: no more than INST_N instances are written to the instance buffer and
\* drawn: n_marks <= INST_N, spawn_mark at n_marks = INST_N writes nothing
\* and leaves n_marks as it is, every write goes to a slot below INST_N, and
\* the list get_visible fills has at most INST_N entries.
C28_InstanceBound ==
    /\ n_marks <= INST_N
    /\ Len(instances.data) <= INST_N
    /\ call.op \in {"cast_mark", "render_markers"} =>
           \A slot \in call.writes : slot < INST_N
    /\ (call.op = "cast_mark" /\ call.before = INST_N) =>
           (call.writes = {} /\ n_marks = INST_N)
    /\ call.op = "render_markers" => call.drawn <= INST_N

\* a hit of cast_mark at n_marks = INST_N, with more than INST_N marks in the
\* octree and INST_N of them in the rendered list
C28_Witness ==
    /\ call.op = "cast_mark" /\ call.found /\ call.before = INST_N
    /\ count > INST_N
    /\ Len(instances.data) = INST_N

====
